---- MODULE Spec2Model ----
(***************************************************************************)
(* Model of the funding-rate alert bot (src/bot.py): the orchestrator      *)
(* module-level startup, main() with its poll loop, the per-instrument     *)
(* evaluation, the dedup set already_alerted, the notifier and the crash   *)
(* and interrupt handlers.                                                 *)
(*                                                                         *)
(* Units.  The clock and every funding time are in milliseconds counted    *)
(* from process start.  A raw funding rate r (the fraction the exchange    *)
(* reports) is the integer r * RateScale; funding_rate (percent) and       *)
(* alert_value carry the same scale.  Processing takes no model time: the  *)
(* clock moves only in the two time.sleep calls.                           *)
(***************************************************************************)
EXTENDS Integers, Sequences, FiniteSets, TLC

(* ------------------------------ bounds -------------------------------- *)

\* Longest funding-data list one fetch returns.
MaxObs == 2

\* Passes of the while loop begun over the whole process lifetime.
MaxCycles == 2

(* ------------------------- program constants -------------------------- *)

\* Variant: the wait is the number of minutes the loop prints at line 171.
CHECK_INTERVAL_Minutes == 1800 \div 60

CHECK_INTERVAL == 1800

\* time.sleep(60) of the crash handler.
CrashPause == 60

\* "if minutes_left < 30"
MinWindow == 30

\* "if abs(alert_value) > 100"
Threshold == 100

\* Fixed-point scale of a raw funding rate: 0.005 is 50, 0.0004 is 4.
RateScale == 10000

\* "/ 1000": milliseconds to seconds.
MsPerSecond == 1000

\* "/ 60": seconds to minutes.
SecondsPerMinute == 60

MsPerMinute == SecondsPerMinute * MsPerSecond

(* ------------------------------ inputs -------------------------------- *)

Instrument(sym, ct, quote, st) ==
  [symbol |-> sym, contractType |-> ct, quoteAsset |-> quote, status |-> st]

\* The dictionary {} that get_exchange_info returns on any transport or parse
\* error: it has no "symbols" key.
EmptyDict == [k \in {} |-> 0]

\* What get_exchange_info can return.
ExchangeInfos ==
  { [symbols |-> << Instrument("BTCUSDT", "PERPETUAL", "USDT", "TRADING"),
                    Instrument("ETHUSDT", "PERPETUAL", "USDT", "TRADING"),
                    Instrument("BTCBUSD", "PERPETUAL", "BUSD", "TRADING"),
                    Instrument("BTCUSDT_Q", "CURRENT_QUARTER", "USDT", "TRADING") >>],
    [symbols |-> << Instrument("BTCUSDT", "PERPETUAL", "USDT", "TRADING"),
                    Instrument("ETHUSDT", "PERPETUAL", "USDT", "SETTLING"),
                    Instrument("BTCBUSD", "PERPETUAL", "BUSD", "TRADING") >>],
    EmptyDict }

\* The JSON string of a funding rate: a decimal numeral (its value times
\* RateScale), or text float() rejects ("" is what the exchange sends for a
\* contract without funding).
Numeral(n) == << "numeral", n >>

NotANumber == << "text" >>

\* One element of the funding-data list: a dictionary that may lack fields.
Obs(sym, rate, nft) ==
  [symbol |-> sym, lastFundingRate |-> Numeral(rate), nextFundingTime |-> nft]

Observations ==
  { Obs("BTCUSDT", 50, 3600000),
    Obs("ETHUSDT", -50, 1830000),
    Obs("ETHUSDT", 4, 3600000),
    Obs("BTCUSDT", 50, 1500000),
    Obs("BTCBUSD", 50, 3600000),
    [lastFundingRate |-> Numeral(50), nextFundingTime |-> 3600000],
    [symbol |-> "BTCUSDT", lastFundingRate |-> NotANumber, nextFundingTime |-> 3600000],
    [symbol |-> "ETHUSDT", lastFundingRate |-> Numeral(50)] }

\* What get_funding_rates can return: a list of observations, [] on error.
FundingLists == UNION { [1..n -> Observations] : n \in 0..MaxObs }

\* What get_max_leverage can return: None (a status other than 200, or any
\* exception), or int(initialLeverage) of the first bracket.
None == << "None" >>

Leverage(n) == << "int", n >>

LeverageResults == { None, Leverage(20), Leverage(200), Leverage(250) }

\* How one call of send_telegram_alert can end: HTTP 200 with "ok", another
\* answer of the chat service, or an exception (transport, or a body that
\* is not JSON).
SendOutcomes == { "ok", "rejected", "error" }

Symbols == { "BTCUSDT", "ETHUSDT", "BTCBUSD", "BTCUSDT_Q" }

FundingTimes == { 1500000, 1830000, 3600000 }

AlertIds == Symbols \X FundingTimes

(* ------------------------------- state -------------------------------- *)

VARIABLES
  pc,               \* position of the single thread of control
  clock,            \* wall clock, ms since process start
  already_alerted,  \* main: the dedup set
  exchange_info,    \* main: result of get_exchange_info()
  valid_symbols,    \* main: eligible symbols
  current_time,     \* main: clock reading at the top of the cycle
  funding_data,     \* main: what "for coin_data in funding_data" has still to visit
  alert_triggered,  \* main: the cycle's flag
  max_leverage,     \* main: last result of get_max_leverage
  cycles,           \* passes of the while loop begun so far, process lifetime
  starts,           \* executions of main() so far
  cyc,              \* history of the current cycle
  boot,             \* history of the current run's startup
  crash,            \* history of the current crash handling
  stopNotes,        \* shutdown notifications sent
  note,             \* the last call of send_telegram_alert since the pass of the
                    \* loop began or its wait ended: message, outcome, posts
  network,          \* whether the process has made any network request
  sinceFetch,       \* ms slept since this run's last funding fetch, -1: none yet
  runAlerts,        \* alert notifications per alertId, this run
  lifeAlerts        \* alert notifications per alertId, process lifetime

prog == << pc, clock, already_alerted, exchange_info, valid_symbols, current_time,
           funding_data, alert_triggered, max_leverage >>

hist == << cycles, starts, cyc, boot, crash, stopNotes, note, network, sinceFetch,
           runAlerts, lifeAlerts >>

prog_but_pc == << clock, already_alerted, exchange_info, valid_symbols, current_time,
                  funding_data, alert_triggered, max_leverage >>

vars == << prog, hist >>

(* --------------------------- pure functions --------------------------- *)

Abs(x) == IF x < 0 THEN -x ELSE x

Max(a, b) == IF a >= b THEN a ELSE b

\* Python's int(a / b) for b > 0: truncation toward zero.
TruncDiv(a, b) == IF a >= 0 THEN a \div b ELSE -((-a) \div b)

\* Variant: the status of the instrument is not looked at.
get_valid_futures_symbols_AnyStatus(info) ==
  LET symbols == IF "symbols" \in DOMAIN info THEN info.symbols ELSE << >>
  IN { symbols[i].symbol : i \in { j \in DOMAIN symbols :
                                     /\ symbols[j].contractType = "PERPETUAL"
                                     /\ symbols[j].quoteAsset = "USDT" } }

\* Variant: the quote asset of the instrument is not looked at.
get_valid_futures_symbols_AnyQuote(info) ==
  LET symbols == IF "symbols" \in DOMAIN info THEN info.symbols ELSE << >>
  IN { symbols[i].symbol : i \in { j \in DOMAIN symbols :
                                     /\ symbols[j].contractType = "PERPETUAL"
                                     /\ symbols[j].status = "TRADING" } }

get_valid_futures_symbols(info) ==
  LET symbols == IF "symbols" \in DOMAIN info THEN info.symbols ELSE << >>
  IN { symbols[i].symbol : i \in { j \in DOMAIN symbols :
                                     /\ symbols[j].contractType = "PERPETUAL"
                                     /\ symbols[j].quoteAsset = "USDT"
                                     /\ symbols[j].status = "TRADING" } }

\* Variant: the empty result is not told apart.
EmptyResult_Never(fd) == FALSE

\* "if not funding_data"
EmptyResult(fd) == fd = << >>

\* coin_data['symbol'] raises KeyError, outside the try of the loop body.
SymbolRaises(coin) == "symbol" \notin DOMAIN coin

\* "if symbol not in valid_symbols: continue"
NotValid(symbol, valid) == symbol \notin valid

\* Lines 127-128 raise (KeyError, or ValueError of float()), inside the try.
FieldsRaise(coin) ==
  \/ "lastFundingRate" \notin DOMAIN coin
  \/ coin.lastFundingRate[1] # "numeral"
  \/ "nextFundingTime" \notin DOMAIN coin

\* float(coin_data['lastFundingRate']) * 100, scaled by RateScale.
funding_rate(coin) == coin.lastFundingRate[2] * 100

\* coin_data['nextFundingTime'] / 1000: seconds with the milliseconds as
\* decimals, kept here as the integer number of milliseconds.
next_funding_time(coin) == coin.nextFundingTime

\* max(0, int(time_left.total_seconds() / 60))
minutes_left(coin, now) == Max(0, TruncDiv(next_funding_time(coin) - now, MsPerMinute))

\* Variant: "<=" for "<".
TooClose_Inclusive(minutes) == minutes <= MinWindow

\* "if minutes_left < 30: continue"
TooClose(minutes) == minutes < MinWindow

\* "if not max_leverage: continue"
NoLeverage(lev) == lev = None \/ lev[2] = 0

alert_value(coin, lev) == funding_rate(coin) * lev[2]

\* Variant: ">=" for ">".
OverThreshold_Inclusive(value) == Abs(value) >= Threshold * RateScale

\* "if abs(alert_value) > 100"
OverThreshold(value) == Abs(value) > Threshold * RateScale

\* f"{symbol}-{next_funding_time}": one string per (symbol, time) pair.
alert_id(coin) == << coin.symbol, next_funding_time(coin) >>

\* Variant: the store is not consulted.
NotYetAlerted_Always(id, alerted) == TRUE

\* "if alert_id not in already_alerted"
NotYetAlerted(id, alerted) == id \notin alerted

\* Variant: the alertId is not recorded.
Add_Forget(alerted, id) == alerted

\* Variant: the store keeps the latest alertId only.
Add_Replace(alerted, id) == { id }

\* already_alerted.add(alert_id)
Add(alerted, id) == alerted \cup { id }

\* Variant: the store of the crashed run is kept.
NewAlerted_Stale == already_alerted

\* "already_alerted = set()"
NewAlerted == {}

\* Variant: the flag is not looked at.
NoLead_Always(triggered) == TRUE

\* "if not alert_triggered"
NoLead(triggered) == ~triggered

\* Variant: a failed send is tried once more.
Posts_Retry(outcome) == IF outcome = "ok" THEN 1 ELSE 2

\* send_telegram_alert, line 32: the requests.post calls of one call.
Posts(outcome) == 1

\* send_telegram_alert(message): one post; every outcome is printed and the
\* call returns to its caller ("except Exception" of line 38).
send_telegram_alert(message, outcome) ==
  [message |-> message, outcome |-> outcome, posts |-> Posts(outcome)]

\* Variant: "break" for "continue".
Remaining_Break(fd) == << >>

\* "continue", or the end of the loop body: what the for loop has still to
\* visit.
Remaining(fd) == Tail(fd)

(* ------------------------------ history ------------------------------- *)

\* The history of one poll cycle: the length of the fetched list (-1 before
\* the fetch), the passes of the loop body, the calls of get_max_leverage,
\* the notifications of each kind, how the last pass of the loop body ended,
\* and whether the for loop ran to its end.
NoCycle ==
  [len |-> -1, evals |-> 0, levFetches |-> 0, alerts |-> 0, nodata |-> 0,
   nosignal |-> 0, last |-> "none", done |-> FALSE]

NoCrash == [notes |-> 0, wait |-> 0]

NoAlerts == [id \in AlertIds |-> 0]

NoNote == [message |-> "none", outcome |-> "none", posts |-> 0]

(* ------------------------------ actions ------------------------------- *)

Init ==
  /\ pc = "import"
  /\ note = NoNote
  /\ network = FALSE
  /\ clock = 0
  /\ already_alerted = {}
  /\ exchange_info = EmptyDict
  /\ valid_symbols = {}
  /\ current_time = 0
  /\ funding_data = << >>
  /\ alert_triggered = FALSE
  /\ max_leverage = None
  /\ cycles = 0
  /\ starts = 0
  /\ cyc = NoCycle
  /\ boot = [startNotes |-> 0, infoFetches |-> 0]
  /\ crash = NoCrash
  /\ stopNotes = 0
  /\ sinceFetch = -1
  /\ runAlerts = NoAlerts
  /\ lifeAlerts = NoAlerts

\* Lines 1-2, at import: requests.get("https://api.ipify.org") and the print
\* of its text.  Nothing catches an exception of the request: the process
\* ends with the traceback.
Import ==
  /\ pc = "import"
  /\ network' = TRUE
  /\ \E reached \in BOOLEAN : pc' = IF reached THEN "secrets" ELSE "traceback"
  /\ UNCHANGED << prog_but_pc, cycles, starts, cyc, boot, crash, stopNotes, note,
                  sinceFetch, runAlerts, lifeAlerts >>

\* Lines 13-20: the four secrets are read from os.environ; a missing one
\* prints the message and calls sys.exit(1).  Otherwise line 184 calls main().
LoadSecrets ==
  /\ pc = "secrets"
  /\ \E present \in BOOLEAN : pc' = IF present THEN "start" ELSE "exited"
  /\ UNCHANGED << prog_but_pc, hist >>

\* main(), lines 97-105: the startup notification, a new dedup set, the
\* instrument fetch and the eligible set.  The locals of the new call start
\* unbound: they are put back to their initial values.
Starting ==
  /\ pc = "start"
  /\ \E info \in ExchangeInfos :
       /\ exchange_info' = info
       /\ valid_symbols' = get_valid_futures_symbols(info)
  /\ already_alerted' = NewAlerted
  /\ boot' = [startNotes |-> 1, infoFetches |-> 1]
  /\ starts' = starts + 1
  /\ runAlerts' = NoAlerts
  /\ sinceFetch' = -1
  /\ cyc' = NoCycle
  /\ funding_data' = << >>
  /\ alert_triggered' = FALSE
  /\ max_leverage' = None
  /\ current_time' = 0
  /\ \E out \in SendOutcomes : note' = send_telegram_alert("started", out)
  /\ network' = TRUE
  /\ pc' = "fetch"
  /\ UNCHANGED << clock, cycles, crash, stopNotes, lifeAlerts >>

\* Lines 108-119: the top of the loop.  An empty result sends the "no data"
\* notification and goes to the sleep of line 116.
CycleStart ==
  /\ pc = "fetch"
  /\ cycles < MaxCycles
  /\ \E fd \in FundingLists :
       /\ funding_data' = fd
       /\ IF EmptyResult(fd)
          THEN /\ cyc' = [NoCycle EXCEPT !.len = Len(fd), !.nodata = 1]
               /\ \E out \in SendOutcomes : note' = send_telegram_alert("nodata", out)
               /\ pc' = "sleep"
               /\ UNCHANGED alert_triggered
          ELSE /\ cyc' = [NoCycle EXCEPT !.len = Len(fd)]
               /\ alert_triggered' = FALSE
               /\ pc' = "for"
               /\ note' = NoNote
  /\ current_time' = clock
  /\ cycles' = cycles + 1
  /\ sinceFetch' = 0
  /\ UNCHANGED << clock, already_alerted, exchange_info, valid_symbols, max_leverage,
                  starts, boot, crash, stopNotes, network, runAlerts, lifeAlerts >>

\* The loop body left without an alert: by "continue", by a caught exception,
\* or by falling through.  fetched says whether get_max_leverage was called,
\* how names the way out.
NextCoin(how, fetched, lev) ==
  /\ funding_data' = Remaining(funding_data)
  /\ max_leverage' = IF fetched THEN lev ELSE max_leverage
  /\ cyc' = [cyc EXCEPT !.evals = @ + 1,
                        !.levFetches = IF fetched THEN @ + 1 ELSE @,
                        !.last = how]
  /\ UNCHANGED << pc, already_alerted, alert_triggered, crash, note, runAlerts,
                  lifeAlerts >>

\* Variant: the alert is recorded, and the cycle flagged, only when the send
\* succeeded.
SendAlert_IfDelivered(id, lev, out) ==
  /\ funding_data' = Remaining(funding_data)
  /\ max_leverage' = lev
  /\ already_alerted' = IF out = "ok" THEN already_alerted \cup { id } ELSE already_alerted
  /\ alert_triggered' = IF out = "ok" THEN TRUE ELSE alert_triggered
  /\ note' = send_telegram_alert("alert", out)
  /\ cyc' = [cyc EXCEPT !.evals = @ + 1, !.levFetches = @ + 1, !.alerts = @ + 1,
                        !.last = "alert"]
  /\ runAlerts' = [runAlerts EXCEPT ![id] = @ + 1]
  /\ lifeAlerts' = [lifeAlerts EXCEPT ![id] = @ + 1]
  /\ UNCHANGED << pc, crash >>

\* Lines 148-160: the alert is sent, recorded, and the cycle is flagged,
\* whatever the outcome out of the send.
SendAlert(id, lev, out) ==
  /\ funding_data' = Remaining(funding_data)
  /\ max_leverage' = lev
  /\ already_alerted' = Add(already_alerted, id)
  /\ alert_triggered' = TRUE
  /\ note' = send_telegram_alert("alert", out)
  /\ cyc' = [cyc EXCEPT !.evals = @ + 1, !.levFetches = @ + 1, !.alerts = @ + 1,
                        !.last = "alert"]
  /\ runAlerts' = [runAlerts EXCEPT ![id] = @ + 1]
  /\ lifeAlerts' = [lifeAlerts EXCEPT ![id] = @ + 1]
  /\ UNCHANGED << pc, crash >>

\* Line 122 raises: the exception leaves the for loop and the while loop and
\* reaches "except Exception" of line 177.
Escape ==
  /\ pc' = "except"
  /\ crash' = NoCrash
  /\ cyc' = [cyc EXCEPT !.evals = @ + 1, !.last = "raise"]
  /\ UNCHANGED << funding_data, max_leverage, already_alerted, alert_triggered,
                  note, runAlerts, lifeAlerts >>

\* Lines 121-165: one pass of the loop body, for the next element; lev is
\* what get_max_leverage returns if it is called.
Evaluate ==
  /\ pc = "for"
  /\ funding_data # << >>
  /\ \E lev \in LeverageResults :
       LET coin == Head(funding_data) IN
       IF SymbolRaises(coin) THEN Escape
       ELSE IF NotValid(coin.symbol, valid_symbols) THEN NextCoin("invalid", FALSE, lev)
       ELSE IF FieldsRaise(coin) THEN NextCoin("caught", FALSE, lev)
       ELSE IF TooClose(minutes_left(coin, current_time)) THEN NextCoin("close", FALSE, lev)
       ELSE IF NoLeverage(lev) THEN NextCoin("nolev", TRUE, lev)
       ELSE IF ~OverThreshold(alert_value(coin, lev)) THEN NextCoin("below", TRUE, lev)
       ELSE IF NotYetAlerted(alert_id(coin), already_alerted)
       THEN \E out \in SendOutcomes : SendAlert(alert_id(coin), lev, out)
       ELSE NextCoin("dup", TRUE, lev)
  /\ UNCHANGED << clock, exchange_info, valid_symbols, current_time,
                  cycles, starts, boot, stopNotes, network, sinceFetch >>

\* Lines 167-171: the end of the for loop.
EndCycle ==
  /\ pc = "for"
  /\ funding_data = << >>
  /\ cyc' = [cyc EXCEPT !.done = TRUE,
                        !.nosignal = IF NoLead(alert_triggered) THEN @ + 1 ELSE @]
  /\ IF NoLead(alert_triggered)
     THEN \E out \in SendOutcomes : note' = send_telegram_alert("nosignal", out)
     ELSE UNCHANGED note
  /\ pc' = "sleep"
  /\ UNCHANGED << clock, already_alerted, exchange_info, valid_symbols, current_time,
                  funding_data, alert_triggered, max_leverage, cycles, starts,
                  boot, crash, stopNotes, network, sinceFetch, runAlerts, lifeAlerts >>

\* time.sleep(CHECK_INTERVAL), line 116 or 172, then the next pass of while.
Sleep ==
  /\ pc = "sleep"
  /\ clock' = clock + CHECK_INTERVAL * MsPerSecond
  /\ sinceFetch' = sinceFetch + CHECK_INTERVAL * MsPerSecond
  /\ pc' = "fetch"
  /\ note' = NoNote
  /\ UNCHANGED << already_alerted, exchange_info, valid_symbols, current_time,
                  funding_data, alert_triggered, max_leverage, cycles, starts,
                  cyc, boot, crash, stopNotes, network, runAlerts, lifeAlerts >>

\* A statement at the top of the while loop, outside the try of the loop
\* body, raises (print of line 110: OSError on a closed stdout): the
\* exception reaches "except Exception" of line 177 before any fetch.
Unexpected ==
  /\ pc = "fetch"
  /\ cycles < MaxCycles
  /\ cycles' = cycles + 1
  /\ cyc' = NoCycle
  /\ crash' = NoCrash
  /\ pc' = "except"
  /\ UNCHANGED << clock, already_alerted, exchange_info, valid_symbols, current_time,
                  funding_data, alert_triggered, max_leverage, starts, boot,
                  stopNotes, note, network, sinceFetch, runAlerts, lifeAlerts >>

\* Lines 177-179: "except Exception", the crash notification.
CrashNotify ==
  /\ pc = "except"
  /\ crash' = [crash EXCEPT !.notes = @ + 1]
  /\ \E out \in SendOutcomes : note' = send_telegram_alert("crash", out)
  /\ pc' = "crash_sleep"
  /\ UNCHANGED << clock, already_alerted, exchange_info, valid_symbols, current_time,
                  funding_data, alert_triggered, max_leverage, cycles, starts,
                  cyc, boot, stopNotes, network, sinceFetch, runAlerts, lifeAlerts >>

\* Lines 180-181: time.sleep(60), then main() again.
CrashSleep ==
  /\ pc = "crash_sleep"
  /\ clock' = clock + CrashPause * MsPerSecond
  /\ crash' = [crash EXCEPT !.wait = @ + CrashPause * MsPerSecond]
  /\ pc' = "start"
  /\ UNCHANGED << already_alerted, exchange_info, valid_symbols, current_time,
                  funding_data, alert_triggered, max_leverage, cycles, starts,
                  cyc, boot, stopNotes, note, network, sinceFetch, runAlerts,
                  lifeAlerts >>

\* Lines 174-176: KeyboardInterrupt raised inside the try of main: the
\* shutdown notification, and main returns.
InterruptInLoop ==
  /\ pc \in { "fetch", "for", "sleep" }
  /\ stopNotes' = stopNotes + 1
  /\ \E out \in SendOutcomes : note' = send_telegram_alert("stopped", out)
  /\ pc' = "stopped"
  /\ UNCHANGED << prog_but_pc, cycles, starts, cyc, boot, crash, network, sinceFetch,
                  runAlerts, lifeAlerts >>

\* KeyboardInterrupt raised outside the try (lines 97-105, or in the crash
\* handler, lines 178-181): no handler, the process ends with the traceback.
InterruptOutside ==
  /\ pc \in { "start", "except", "crash_sleep" }
  /\ pc' = "died"
  /\ UNCHANGED << prog_but_pc, hist >>

Next ==
  \/ Import
  \/ LoadSecrets
  \/ Starting
  \/ CycleStart
  \/ Evaluate
  \/ EndCycle
  \/ Sleep
  \/ Unexpected
  \/ CrashNotify
  \/ CrashSleep
  \/ InterruptInLoop
  \/ InterruptOutside

Spec == Init /\ [][Next]_vars

\* The crash handler and the restart run on: nothing in them waits for an
\* event (send_telegram_alert returns, time.sleep(60) ends, main() is called).
LiveSpec ==
  /\ Spec
  /\ WF_vars(CrashNotify)
  /\ WF_vars(CrashSleep)
  /\ WF_vars(Starting)

(* ----------------------- vocabulary of the claims --------------------- *)

\* A step that is one pass of the loop body, for the observation Coin.
EvalStep == pc = "for" /\ funding_data # << >> /\ cyc'.evals = cyc.evals + 1

Coin == Head(funding_data)

\* Eligibility as the specification states it, from the instrument list of
\* this run's startup.
Eligible(sym) ==
  /\ "symbols" \in DOMAIN exchange_info
  /\ \E i \in DOMAIN exchange_info.symbols :
       /\ exchange_info.symbols[i].symbol = sym
       /\ exchange_info.symbols[i].contractType = "PERPETUAL"
       /\ exchange_info.symbols[i].quoteAsset = "USDT"
       /\ exchange_info.symbols[i].status = "TRADING"

EligibleSet == { sym \in Symbols : Eligible(sym) }

WellFormed(c) ==
  /\ { "symbol", "lastFundingRate", "nextFundingTime" } \subseteq DOMAIN c
  /\ c.lastFundingRate[1] = "numeral"

\* max(0, floor(minutes from the evaluation instant to the funding instant))
SpecMinutesLeft(c, now) ==
  LET m == (c.nextFundingTime - now) \div 60000 IN IF m < 0 THEN 0 ELSE m

\* fundingRatePercent x maxLeverage, times RateScale
SpecValue(c, lev) == c.lastFundingRate[2] * 100 * lev[2]

SpecId(c) == << c.symbol, c.nextFundingTime >>

\* This step sent an alert notification for id.
AlertFor(id) == runAlerts'[id] = runAlerts[id] + 1 /\ cyc'.alerts = cyc.alerts + 1

\* This step sent no alert notification and left the dedup store alone.
NoAlertStep ==
  /\ cyc'.alerts = cyc.alerts
  /\ runAlerts' = runAlerts
  /\ lifeAlerts' = lifeAlerts
  /\ already_alerted' = already_alerted

(* ------------------------------- claims ------------------------------- *)

\* C1: within one run of main(), at most one alert notification is sent for
\* every alertId, over any number of cycles and observations.
C1_AtMostOneAlertPerRun == \A id \in AlertIds : runAlerts[id] <= 1

\* C1 witness: in the second cycle of a run an over-threshold observation
\* whose alertId is in the store was evaluated, and suppressed.
C1_Witness ==
  /\ starts = 1 /\ cycles = 2
  /\ cyc.last = "dup" /\ cyc.alerts = 0
  /\ \E id \in already_alerted : runAlerts[id] = 1

\* C2: for an eligible, well-formed observation with at least 30 minutes
\* left and a present max leverage, the evaluation sends an alert iff
\* |rate percent x leverage| > 100 (strictly) and the alertId is not in the
\* store; 0.005 x 250 alerts, 0.0004 x 20 does not.
C2_AlertIffOverThreshold ==
  [][ ( /\ EvalStep
        /\ WellFormed(Coin)
        /\ Eligible(Coin.symbol)
        /\ SpecMinutesLeft(Coin, current_time) >= 30
        /\ cyc'.levFetches = cyc.levFetches + 1
        /\ max_leverage' # None /\ max_leverage'[2] # 0 )
      => LET v == SpecValue(Coin, max_leverage')
             over == v > 100 * RateScale \/ v < -100 * RateScale
             fresh == SpecId(Coin) \notin already_alerted
         IN /\ AlertFor(SpecId(Coin)) <=> (over /\ fresh)
            /\ ~(over /\ fresh) => NoAlertStep
            /\ ( /\ Coin.lastFundingRate = Numeral(50)
                 /\ max_leverage' = Leverage(250)
                 /\ fresh ) => AlertFor(SpecId(Coin))
            /\ ( /\ Coin.lastFundingRate = Numeral(4)
                 /\ max_leverage' = Leverage(20) ) => NoAlertStep
    ]_vars

\* C2 witness: the only evaluation of the cycle alerted for BTCUSDT with
\* leverage 250 (rate 0.005, value 125).
C2_Witness ==
  /\ cyc.evals = 1 /\ cyc.alerts = 1 /\ cyc.last = "alert"
  /\ max_leverage = Leverage(250)
  /\ runAlerts[<< "BTCUSDT", 3600000 >>] = 1

\* C3: the store holds exactly the alertIds alerted since the run's start;
\* an alertId enters it only with its first over-threshold alert, and none
\* leaves it during the run.
C3_StoreIsAlertedSet ==
  /\ [](already_alerted = { id \in AlertIds : runAlerts[id] > 0 })
  /\ [][ /\ (pc # "start") => already_alerted \subseteq already_alerted'
         /\ (pc = "start") => already_alerted' \in { {}, already_alerted }
         /\ \A id \in already_alerted' \ already_alerted :
              /\ EvalStep
              /\ WellFormed(Coin)
              /\ id = SpecId(Coin)
              /\ Abs(SpecValue(Coin, max_leverage')) > 100 * RateScale
              /\ AlertFor(id)
              /\ already_alerted' = already_alerted \cup { id }
    ]_vars

\* C3 witness: a cycle in which one evaluation alerted and a later one
\* fetched the leverage and stayed below the threshold.
C3_Witness ==
  /\ cyc.evals = 2 /\ cyc.alerts = 1 /\ cyc.levFetches = 2 /\ cyc.last = "below"
  /\ Cardinality(already_alerted) = 1

\* C4: an observation with minutesLeft < 30 (25 minutes ahead, or in the
\* past) causes no leverage fetch, no alert and no change of the store; one
\* with exactly 30 minutes left is not skipped.
C4_TooCloseSkipped ==
  [][ ( EvalStep /\ "nextFundingTime" \in DOMAIN Coin )
      => /\ SpecMinutesLeft(Coin, current_time) < 30
              => /\ cyc'.levFetches = cyc.levFetches
                 /\ max_leverage' = max_leverage
                 /\ NoAlertStep
         /\ ( /\ SpecMinutesLeft(Coin, current_time) >= 30
              /\ WellFormed(Coin)
              /\ Eligible(Coin.symbol) )
              => cyc'.levFetches = cyc.levFetches + 1
    ]_vars

\* C4 witness: at time 0 the observation 30.5 minutes ahead (30 minutes
\* left) was evaluated and alerted, then the one 25 minutes ahead was
\* skipped.
C4_Witness ==
  /\ cyc.last = "close" /\ cyc.evals = 2 /\ cyc.levFetches = 1
  /\ current_time = 0
  /\ runAlerts[<< "ETHUSDT", 1830000 >>] = 1

\* C5: an observation whose symbol is not eligible is not processed: no
\* leverage fetch, no alert, no change of the store or of the cycle's flag.
C5_IneligibleUntouched ==
  [][ ( /\ EvalStep
        /\ "symbol" \in DOMAIN Coin
        /\ ~Eligible(Coin.symbol) )
      => /\ cyc'.levFetches = cyc.levFetches
         /\ max_leverage' = max_leverage
         /\ alert_triggered' = alert_triggered
         /\ NoAlertStep
         /\ pc' = pc
    ]_vars

\* C5 witness: an ineligible observation was passed over in a run that has
\* eligible symbols, after an alert of the same cycle.
C5_Witness ==
  /\ cyc.last = "invalid" /\ cyc.alerts = 1 /\ cyc.levFetches = 1
  /\ valid_symbols # {}
  /\ alert_triggered

\* C6: a cycle whose funding fetch is empty sends exactly one "no data"
\* notification, evaluates nothing, fetches no leverage, sends no "no
\* signal", leaves the store alone and sleeps the full interval before the
\* next fetch.
C6_EmptyFetch ==
  /\ []( cyc.len = 0
         => /\ cyc.nodata = 1
            /\ cyc.evals = 0 /\ cyc.levFetches = 0
            /\ cyc.nosignal = 0 /\ cyc.alerts = 0
            /\ pc # "for"
            /\ (pc = "sleep") => sinceFetch = 0
            /\ (pc = "fetch") => sinceFetch = CHECK_INTERVAL * 1000 )
  /\ [][ (cyc'.len = 0) => already_alerted' = already_alerted ]_vars

\* C6 witness: after an empty fetch the loop is back at the top, the
\* interval slept, with a store an earlier cycle filled.
C6_Witness ==
  /\ cyc.len = 0 /\ pc = "fetch" /\ sinceFetch = 1800000
  /\ already_alerted # {}

\* C7: a cycle with a non-empty fetch that runs to its end sends exactly
\* one "no signal" notification if it sent no alert, and none if it sent
\* one; nothing of the kind is sent before the end.
C7_NoSignal ==
  cyc.len > 0
  => /\ cyc.done => cyc.nosignal = (IF cyc.alerts = 0 THEN 1 ELSE 0)
     /\ ~cyc.done => cyc.nosignal = 0
     /\ cyc.nodata = 0
     /\ (pc \in { "sleep", "fetch" }) => cyc.done

\* C7 witness: a complete cycle whose only over-threshold observation was
\* suppressed as a duplicate, and which sent "no signal".
C7_Witness ==
  /\ cyc.done /\ cyc.last = "dup" /\ cyc.alerts = 0 /\ cyc.nosignal = 1

\* C8: every per-instrument processing error, a missing symbol field
\* included, is caught at instrument scope: the loop goes on with the next
\* observation and the orchestrator does not crash.
C8_ErrorsCaught ==
  [][ ( EvalStep /\ ~WellFormed(Coin) )
      => /\ pc' = "for"
         /\ funding_data' = Tail(funding_data)
    ]_vars

\* C9: an exception that escapes the loop is followed by exactly one crash
\* notification, then the 60 second pause, then main() again: a startup
\* notification, a new instrument fetch, the eligible set computed from it
\* and an empty store (unless an interrupt ends the process first).
C9_CrashRestart ==
  /\ []( /\ (pc = "except") => crash.notes = 0 /\ crash.wait = 0
         /\ (pc = "crash_sleep") => crash.notes = 1 /\ crash.wait = 0
         /\ (pc = "start" /\ starts > 0) => crash.notes = 1 /\ crash.wait = 60000 )
  /\ [][ /\ (pc = "except" /\ pc' # pc) => pc' \in { "crash_sleep", "died" }
         /\ (pc = "crash_sleep" /\ pc' # pc) => pc' \in { "start", "died" }
         /\ (pc = "start" /\ pc' # pc)
              => \/ pc' = "died"
                 \/ /\ pc' = "fetch"
                    /\ starts' = starts + 1
                    /\ boot' = [startNotes |-> 1, infoFetches |-> 1]
                    /\ exchange_info' \in ExchangeInfos
                    /\ valid_symbols' = EligibleSet'
                    /\ already_alerted' = {}
                    /\ runAlerts' = NoAlerts
    ]_vars
  /\ (pc = "except") ~> (pc \in { "fetch", "died" })

\* C9 witness: restarted after a crash, with an empty store although an
\* alertId fired before the crash.
C9_Witness ==
  /\ pc = "fetch" /\ starts = 2
  /\ crash.notes = 1 /\ crash.wait = 60000
  /\ already_alerted = {}
  /\ \E id \in AlertIds : lifeAlerts[id] = 1

\* C10, as claimed: over the whole process lifetime an alertId fires at
\* most once.
C10_OncePerLifetime == \A id \in AlertIds : lifeAlerts[id] <= 1

\* C10, amended: an alert for an alertId is sent only if that alertId has
\* not fired earlier in the same run of main(); over the process lifetime it
\* fires at most once per run.
C10_OncePerRun ==
  /\ [](\A id \in AlertIds : lifeAlerts[id] <= starts)
  /\ [][ \A id \in AlertIds :
           (lifeAlerts'[id] # lifeAlerts[id])
             => /\ lifeAlerts'[id] = lifeAlerts[id] + 1
                /\ runAlerts[id] = 0
                /\ id \notin already_alerted
    ]_vars

\* C10 witness: the same alertId fired before a crash and again after the
\* restart.
C10_Witness ==
  \E id \in AlertIds : lifeAlerts[id] = 2 /\ runAlerts[id] = 1 /\ starts = 2

\* C11, as claimed: wherever a user's interruption reaches the orchestrator
\* (startup, a cycle, the wait between cycles, the pause of the crash
\* handler, at any restart depth), the orchestrator ends STOPPED with
\* exactly one shutdown notification sent, and takes no step afterwards.
C11_InterruptStops ==
  /\ [](pc \in { "stopped", "died" } => pc = "stopped" /\ stopNotes = 1)
  /\ [][ pc \notin { "stopped", "died" } ]_vars

\* C12, as claimed: when a credential is missing the process exits with
\* status 1 (sys.exit(1) after the printed message) and has made no network
\* request before that exit.
C12_NoNetworkBeforeExit == pc = "exited" => ~network /\ note = NoNote

\* C13, as claimed, in the form a finite run refutes: a run of the
\* orchestrator whose instrument fetch returned the empty result does not
\* go on polling on the empty eligible set: by the end of MaxCycles poll
\* cycles, however large MaxCycles is taken, the instrument list has been
\* fetched again.
C13_FetchesAgain ==
  ~ ( /\ starts = 1 /\ boot.infoFetches = 1
      /\ exchange_info = EmptyDict /\ valid_symbols = {}
      /\ cycles = MaxCycles /\ cyc.len > 0 /\ cyc.done
      /\ pc = "sleep" )

\* This step called the notifier: one of the six notifications was sent.
NotifierCall ==
  \/ starts' = starts + 1
  \/ cycles' = cycles + 1 /\ cyc'.nodata = 1
  \/ cyc'.alerts = cyc.alerts + 1
  \/ cyc'.nosignal = cyc.nosignal + 1
  \/ crash'.notes = crash.notes + 1
  \/ stopNotes' = stopNotes + 1

\* Where the caller stands once the notifier has returned to it.
AfterNote(message) ==
  CASE message = "started"  -> "fetch"
    [] message = "nodata"   -> "sleep"
    [] message = "alert"    -> "for"
    [] message = "nosignal" -> "sleep"
    [] message = "crash"    -> "crash_sleep"
    [] message = "stopped"  -> "stopped"

\* C14: a call of the notifier makes exactly one send attempt and returns to
\* its caller, whether the send succeeded, was rejected or failed in
\* transport: the caller goes on where it would after a delivered message,
\* the rest of the cycle's observations included, and no failed send takes
\* the orchestrator into the crash handler.
C14_NotifierReturns ==
  /\ [](note # NoNote => note.posts = 1 /\ note.outcome \in { "ok", "rejected", "error" })
  /\ [][ NotifierCall
           => /\ note' # NoNote
              /\ note'.posts = 1
              /\ pc' = AfterNote(note'.message)
              /\ pc' # "except"
              /\ note'.message = "alert" => funding_data' = Tail(funding_data)
    ]_vars

\* C14 witness: an alert whose send failed in transport, and the cycle goes
\* on with the next observation.
C14_Witness ==
  /\ note = [message |-> "alert", outcome |-> "error", posts |-> 1]
  /\ pc = "for" /\ funding_data # << >>

\* C15: when get_max_leverage gives no leverage for an instrument, that
\* instrument alone is skipped: no alert is sent for it, the dedup store and
\* the cycle's flag stay as they are, the loop goes on with the remaining
\* observations, and the orchestrator does not crash.
C15_NoLeverageSkipped ==
  [][ ( /\ EvalStep
        /\ cyc'.levFetches = cyc.levFetches + 1
        /\ max_leverage' = <<"None">> )
        => /\ NoAlertStep
           /\ note' = note
           /\ alert_triggered' = alert_triggered
           /\ funding_data' = Tail(funding_data)
           /\ pc' = "for"
    ]_vars

\* C15 witness: the first observation of a cycle got no leverage, and the
\* second is still to be evaluated.
C15_Witness ==
  /\ pc = "for" /\ cyc.evals = 1 /\ cyc.levFetches = 1
  /\ max_leverage = <<"None">>
  /\ cyc.alerts = 0
  /\ Len(funding_data) = 1

\* C16: every start of the orchestrator fetches the instrument list once
\* and computes the eligible set from it once; no step of the loop (fetch,
\* evaluation, notification, wait) changes the list or the set, so until a
\* restart the evaluation goes by the eligibility seen at startup.
C16_EligibleSetFixed ==
  /\ [](starts >= 1 => boot.infoFetches = 1 /\ valid_symbols = EligibleSet)
  /\ [][ pc # "start"
           => /\ exchange_info' = exchange_info
              /\ valid_symbols' = valid_symbols
              /\ boot'.infoFetches = boot.infoFetches
    ]_vars
  /\ [][ (EvalStep /\ "symbol" \in DOMAIN Coin /\ Coin.symbol \notin valid_symbols)
           => NoAlertStep /\ cyc'.levFetches = cyc.levFetches
    ]_vars

\* C16 witness: in the second cycle of a run whose startup saw ETHUSDT not
\* trading, an ETHUSDT observation is passed over.
C16_Witness ==
  /\ starts = 1 /\ cycles = 2 /\ boot.infoFetches = 1
  /\ valid_symbols = { "BTCUSDT" }
  /\ cyc.last = "invalid" /\ cyc.evals >= 1

\* This step is the funding fetch of a cycle.
FetchStep == pc = "fetch" /\ cycles' = cycles + 1 /\ cyc'.len >= 0

\* C17: the cycles of a run follow one another: a funding fetch that is not
\* the first of its run comes exactly one wait of 1800 seconds after the
\* fetch before it, whether the earlier cycle evaluated its observations or
\* had none, and when it is made nothing of the earlier cycle is left to
\* evaluate; evaluation happens only in the cycle of the latest fetch.
C17_OneWaitBetweenFetches ==
  /\ [][ FetchStep
           => /\ sinceFetch = -1 \/ sinceFetch = 1800 * 1000
              /\ funding_data = << >>
              /\ sinceFetch # -1 => cyc.len = 0 \/ cyc.done
              /\ sinceFetch' = 0
    ]_vars
  /\ [](pc = "for" => sinceFetch = 0 /\ cyc.len > 0)
  /\ [](sinceFetch \in { -1, 0, 1800 * 1000 })

\* C17 witness: the second funding fetch of a run, one wait after the
\* first.
C17_Witness ==
  /\ starts = 1 /\ cycles = 2 /\ pc = "for"
  /\ clock = 1800 * 1000 /\ current_time = clock /\ sinceFetch = 0

\* C18, as claimed: each failure above the scope of one instrument (a
\* missing credential, a failed instrument fetch at startup, a failed
\* funding fetch, an exception that leaves the loop) is followed by a
\* notification sent through the notifier.
C18_FailuresNotified ==
  /\ pc = "exited" => note # NoNote
  /\ (pc = "fetch" /\ sinceFetch = -1 /\ exchange_info = EmptyDict)
       => note.message \notin { "none", "started" }
  /\ cyc.len = 0 => cyc.nodata >= 1
  /\ pc = "crash_sleep" => crash.notes >= 1

\* C19: when the send of an alert for a new alertId fails (rejected, or a
\* transport error), the alertId is added to the dedup store all the same
\* and the cycle is flagged: the cycle ends without the "no signal"
\* notification, and for the rest of the run no alert is sent for that
\* alertId again.
C19_FailedAlertRecorded ==
  /\ [][ ( /\ EvalStep
            /\ cyc'.alerts = cyc.alerts + 1
            /\ note'.outcome \in { "rejected", "error" } )
           => /\ SpecId(Coin) \notin already_alerted
              /\ SpecId(Coin) \in already_alerted'
              /\ alert_triggered'
    ]_vars
  /\ [][ \A id \in AlertIds : AlertFor(id) => id \notin already_alerted ]_vars
  /\ [][ pc # "start" => already_alerted \subseteq already_alerted' ]_vars
  /\ []((cyc.alerts >= 1 /\ pc = "sleep") => alert_triggered /\ cyc.nosignal = 0)

\* C19 witness: the only alert of the cycle failed in transport; the next
\* observation of the same alertId was suppressed and the cycle ended
\* without the "no signal" notification.
C19_Witness ==
  /\ pc = "sleep" /\ cyc.done
  /\ note = [message |-> "alert", outcome |-> "error", posts |-> 1]
  /\ cyc.alerts = 1 /\ cyc.last = "dup"
  /\ Cardinality(already_alerted) = 1
  /\ cyc.nosignal = 0

====
